---- MODULE Spec2Model ----
(***************************************************************************)
(* A model of doogie's PageIndex (src/src/page_index.cc): the visit index  *)
(* behind address-bar autocomplete, its favicon table, the decoded-icon    *)
(* pixmap cache and the periodic expiration sweep.                         *)
(*                                                                         *)
(* Text is a sequence of one-character strings.  SQL tables are sets of    *)
(* rows (records); every statement may fail (a storage error), which the   *)
(* caller observes exactly as the code does.                               *)
(***************************************************************************)
EXTENDS Integers, Sequences, FiniteSets, TLC

VARIABLES
    autocomplete_page,  \* table autocomplete_page: set of rows
    favicon,            \* table favicon: set of rows
    pixmapCache,        \* QPixmapCache: function favicon url -> decoded pixmap
    now,                \* QDateTime::currentSecsSinceEpoch()
    last,               \* the last call made: see Call
    expirer,            \* the Expirer: its timer and the sweeps under way
    visits              \* the MarkVisit calls under way, one a thread

vars == <<autocomplete_page, favicon, pixmapCache, now, last, expirer, visits>>

-----------------------------------------------------------------------------
(* Bounds of the model *)

\* longest text typed into the address bar in the study of the query string
MaxTextLen == 3
\* largest rowid the page table hands out
MaxPages == 2
\* the clock runs from 0 to MaxTime
MaxTime == 2

(* Program constants (declared in page_index.h, scaled to the model's clock) *)
kVisitTimeWorthSeconds == 2
kExpireNotVisitedSinceSeconds == 1

-----------------------------------------------------------------------------
(* Text: QString as a sequence of characters *)

Quote == "\""
Apostrophe == "'"
Space == " "
SchemeSep == <<":", "/", "/">>

\* QString::indexOf(pat): 0-based position of the first occurrence, or -1
IndexOf(s, pat) ==
    LET hits == {i \in 0..(Len(s) - Len(pat)) :
                    SubSeq(s, i + 1, i + Len(pat)) = pat}
    IN IF hits = {} THEN -1
       ELSE CHOOSE i \in hits : \A j \in hits : i <= j

\* QString::mid(pos): the text from 0-based position pos to the end
Mid(s, pos) == IF pos >= Len(s) THEN <<>> ELSE SubSeq(s, pos + 1, Len(s))

\* QString::isEmpty
IsEmpty(s) == Len(s) = 0

Letters == {"a", "b", "f", "g", "s", "t"}
Digit == <<"0", "1", "2", "3", "4", "5", "6", "7", "8", "9">>

\* the character codes the hash is computed from
Code(c) ==
    CASE c = "a" -> 1 [] c = "b" -> 2 [] c = "f" -> 3 [] c = "g" -> 4
      [] c = "s" -> 5 [] c = "t" -> 6 [] c = ":" -> 7 [] c = "/" -> 8
      [] OTHER -> 9

RECURSIVE SumCodes(_)
SumCodes(s) == IF s = <<>> THEN 0 ELSE Code(Head(s)) + SumCodes(Tail(s))

HashMod == 16
\* Util::HashString: a fingerprint of the text, not collision-free
HashString(s) == (SumCodes(s) + Len(s)) % HashMod

-----------------------------------------------------------------------------
(* SQL values and comparison.  A bound parameter keeps its storage class;  *)
(* the column's affinity is applied to it before the comparison.           *)

SqlText(s) == [t |-> "text", v |-> s]
SqlInt(n) == [t |-> "int", v |-> n]

RECURSIVE IntToText(_)
\* the decimal text of a non-negative integer
IntToText(n) ==
    IF n < 10 THEN <<Digit[n + 1]>>
    ELSE Append(IntToText(n \div 10), Digit[(n % 10) + 1])

IsDigit(c) == \E i \in 1..10 : Digit[i] = c
IsNumeric(s) == Len(s) > 0 /\ \A i \in 1..Len(s) : IsDigit(s[i])

RECURSIVE TextToInt(_)
TextToInt(s) ==
    IF s = <<>> THEN 0
    ELSE 10 * TextToInt(SubSeq(s, 1, Len(s) - 1))
         + (CHOOSE d \in 0..9 : Digit[d + 1] = s[Len(s)])

\* column affinity applied to a bound value
ApplyAffinity(aff, val) ==
    IF aff = "TEXT" /\ val.t = "int" THEN SqlText(IntToText(val.v))
    ELSE IF aff = "INTEGER" /\ val.t = "text" /\ IsNumeric(val.v)
         THEN SqlInt(TextToInt(val.v))
    ELSE val

\* column = ? for a column of affinity aff holding col
SqlEq(aff, col, param) ==
    LET p == ApplyAffinity(aff, param)
    IN col.t = p.t /\ col.v = p.v

\* the rowid an INSERT generates: one more than the largest in the table
NewRowId(table) ==
    IF table = {} THEN 1
    ELSE 1 + (CHOOSE m \in {r.id : r \in table} : \A r \in table : r.id <= m)

\* QVariant(QVariant::LongLong): the null favicon reference
NullId == 0

-----------------------------------------------------------------------------
(* Icons.  A QIcon has a cache key (an identity tag) and a pixmap; PNG     *)
(* encoding and decoding are not the identity.                             *)

NullIcon == [null |-> TRUE, key |-> 0, pix |-> "none"]
Icons == {NullIcon,
          [null |-> FALSE, key |-> 1, pix |-> "p"],
          [null |-> FALSE, key |-> 2, pix |-> "q"]}

\* icon_bytes(): favicon.pixmap(16, 16).save(&buffer, "PNG")
icon_bytes(icon) == <<"PNG", icon.pix>>
\* pixmap.loadFromData(bytes, "PNG")
loadFromData(bytes) == bytes[2]

-----------------------------------------------------------------------------
(* The inputs the callers draw from *)

Urls == {<<"s", ":", "/", "/", "a">>, <<"s", ":", "/", "/", "b">>, <<"a", "b">>}
Titles == {<<"t">>}
FaviconUrls == {<<>>, <<"f">>}
Counts == {1, 2}

\* which statement of a call the storage service fails (at most one a call):
\* the favicon lookup, the favicon write, the page UPDATE, the page INSERT
Failures ==
    {f \in [sel : BOOLEAN, fav : BOOLEAN, upd : BOOLEAN, ins : BOOLEAN] :
        Cardinality({k \in {"sel", "fav", "upd", "ins"} : f[k]}) <= 1}
NoFailure == [sel |-> FALSE, fav |-> FALSE, upd |-> FALSE, ins |-> FALSE]

\* the threads that may call MarkVisit at once, and a thread making no call
Threads == {1, 2}
Idle == [pc |-> "idle"]

\* The record of a call: what was called with what, what it returned, the
\* statements it issued, whether the storage service failed one of them, and,
\* of an Upsert, whether it repeats the Upsert made just before it.
Call(op, args, ret, stmts, err) ==
    [op |-> op, args |-> args, ret |-> ret, stmts |-> stmts, err |-> err,
     again |-> (op = "FaviconId" /\ last.op = op /\ last.args = args)]

-----------------------------------------------------------------------------
(* PageIndex::FaviconId(url, favicon) -- FaviconCache.Upsert *)

\* the same clause with the two values bound in the other order
FaviconMatchesSwapped(row, hash, url) ==
    /\ SqlEq("INTEGER", SqlInt(row.url_hash), SqlText(url))
    /\ SqlEq("TEXT", SqlText(row.url), SqlInt(hash))

\* WHERE url_hash = ? AND url = ?   bound to { hash, url }
FaviconMatches(row, hash, url) ==
    /\ SqlEq("INTEGER", SqlInt(row.url_hash), SqlInt(hash))
    /\ SqlEq("TEXT", SqlText(row.url), SqlText(url))

\* ExecSingleParam: the first row of the result
FirstRow(rows) == CHOOSE r \in rows : \A q \in rows : r.id <= q.id

\* a comparison that reads the id column for the stored key
IsCurrentById(icon, record) == icon.key = record.id

\* favicon.cacheKey() != record.value("data_key").toLongLong(), negated
IsCurrent(icon, record) == icon.key = record.data_key

\* a refresh that stores the new key and leaves the old bytes
UpdateFaviconKeyOnly(table, icon, id) ==
    {IF r.id = id THEN [r EXCEPT !.data_key = icon.key] ELSE r : r \in table}

\* UPDATE favicon SET data_key = ?, data = ? WHERE id = ?
UpdateFavicon(table, icon, id) ==
    {IF r.id = id
     THEN [r EXCEPT !.data_key = icon.key, !.data = icon_bytes(icon)]
     ELSE r : r \in table}

\* INSERT INTO favicon (url, url_hash, data_key, data) VALUES (?, ?, ?, ?)
InsertFavicon(table, url, hash, icon) ==
    table \cup {[id |-> NewRowId(table), url |-> url, url_hash |-> hash,
                 data_key |-> icon.key, data |-> icon_bytes(icon)]}

\* a FaviconId that gives no id when its refreshing UPDATE fails
FaviconIdStrict(table, url, icon, f) ==
    IF IsEmpty(url) \/ icon.null
    THEN [table |-> table, id |-> NullId, stmts |-> <<>>, err |-> FALSE]
    ELSE
    LET hash == HashString(url)
        found == {r \in table : FaviconMatches(r, hash, url)}
    IN  IF f.sel
        THEN [table |-> table, id |-> NullId,
              stmts |-> <<"SELECT favicon">>, err |-> TRUE]
        ELSE IF found # {}
        THEN LET record == FirstRow(found)
             IN  IF ~IsCurrent(icon, record)
                 THEN [table |-> IF f.fav THEN table
                                 ELSE UpdateFavicon(table, icon, record.id),
                       id |-> IF f.fav THEN NullId ELSE record.id,
                       stmts |-> <<"SELECT favicon", "UPDATE favicon">>,
                       err |-> f.fav]
                 ELSE [table |-> table, id |-> record.id,
                       stmts |-> <<"SELECT favicon">>, err |-> FALSE]
        ELSE IF f.fav
        THEN [table |-> table, id |-> NullId,
              stmts |-> <<"SELECT favicon", "INSERT favicon">>, err |-> TRUE]
        ELSE [table |-> InsertFavicon(table, url, hash, icon),
              id |-> NewRowId(table),
              stmts |-> <<"SELECT favicon", "INSERT favicon">>, err |-> FALSE]

\* The whole of FaviconId on table: the table it leaves, the id it returns,
\* the statements it issued and whether one of them failed.
FaviconId(table, url, icon, f) ==
    IF IsEmpty(url) \/ icon.null
    THEN [table |-> table, id |-> NullId, stmts |-> <<>>, err |-> FALSE]
    ELSE
    LET hash == HashString(url)
        found == {r \in table : FaviconMatches(r, hash, url)}
    IN  IF f.sel
        THEN [table |-> table, id |-> NullId,
              stmts |-> <<"SELECT favicon">>, err |-> TRUE]
        ELSE IF found # {}
        THEN LET record == FirstRow(found)
             IN  IF ~IsCurrent(icon, record)
                 THEN [table |-> IF f.fav THEN table
                                 ELSE UpdateFavicon(table, icon, record.id),
                       id |-> record.id,
                       stmts |-> <<"SELECT favicon", "UPDATE favicon">>,
                       err |-> f.fav]
                 ELSE [table |-> table, id |-> record.id,
                       stmts |-> <<"SELECT favicon">>, err |-> FALSE]
        ELSE IF f.fav
        THEN [table |-> table, id |-> NullId,
              stmts |-> <<"SELECT favicon", "INSERT favicon">>, err |-> TRUE]
        ELSE [table |-> InsertFavicon(table, url, hash, icon),
              id |-> NewRowId(table),
              stmts |-> <<"SELECT favicon", "INSERT favicon">>, err |-> FALSE]

-----------------------------------------------------------------------------
(* PageIndex::MarkVisit(url, title, favicon_url, favicon) *)

\* a check that rejects only a url starting with the separator
NoSchemeAtStart(scheme_sep) == scheme_sep = 0

\* if (scheme_sep == -1) return false;
NoScheme(scheme_sep) == scheme_sep = -1

\* The parameters of the UPDATE, in the order the code binds them
UpdateParams(schemeless_url, title, favicon_id, curr_secs, url, hash) ==
    <<SqlText(schemeless_url), SqlText(title), favicon_id, curr_secs,
      curr_secs, kVisitTimeWorthSeconds, SqlText(url), SqlInt(hash)>>

\* an UPDATE whose WHERE clause holds of every row
UpdateMatchesEveryRow(row, params) == TRUE

\* WHERE url_hash = ? AND url = ?   (the 7th and 8th parameters)
UpdateMatches(row, params) ==
    /\ SqlEq("INTEGER", SqlInt(row.url_hash), params[7])
    /\ SqlEq("TEXT", SqlText(row.url), params[8])

\* UPDATE autocomplete_page SET ... : the right-hand sides read the old row
UpdatePage(table, params) ==
    {IF UpdateMatches(r, params)
     THEN [r EXCEPT !.schemeless_url = params[1].v,
                    !.title = params[2].v,
                    !.favicon_id = params[3],
                    !.last_visited = params[4],
                    !.visit_count = r.visit_count + 1,
                    !.frecency = params[5] + ((r.visit_count + 1) * params[6])]
     ELSE r : r \in table}

\* query.numRowsAffected()
NumRowsAffected(table, params) ==
    Cardinality({r \in table : UpdateMatches(r, params)})

\* an INSERT that replaces the row of the same url, as insert-or-replace over
\* a unique index on the url would
InsertOrReplacePage(table, url, hash, schemeless_url, title, favicon_id, curr_secs) ==
    {r \in table : r.url # url}
        \cup {[id |-> NewRowId(table), url |-> url, url_hash |-> hash,
                schemeless_url |-> schemeless_url, title |-> title,
                favicon_id |-> favicon_id, last_visited |-> curr_secs,
                visit_count |-> 1,
                frecency |-> curr_secs + kVisitTimeWorthSeconds]}

\* INSERT INTO autocomplete_page (...) VALUES (?, ?, ?, ?, ?, ?, ?, ?)
InsertPage(table, url, hash, schemeless_url, title, favicon_id, curr_secs) ==
    table \cup {[id |-> NewRowId(table), url |-> url, url_hash |-> hash,
                 schemeless_url |-> schemeless_url, title |-> title,
                 favicon_id |-> favicon_id, last_visited |-> curr_secs,
                 visit_count |-> 1,
                 frecency |-> curr_secs + kVisitTimeWorthSeconds]}

\* The whole of MarkVisit on the two tables at time curr_secs: the tables it
\* leaves, what it returns, the statements it issued, whether one failed.
MarkVisitResult(page, favtable, curr_secs, url, title, favicon_url, icon, f) ==
    LET scheme_sep == IndexOf(url, SchemeSep)
    IN
    IF NoScheme(scheme_sep)
    THEN [page |-> page, favicon |-> favtable, ret |-> FALSE,
          stmts |-> <<>>, err |-> FALSE]
    ELSE
    LET hash == HashString(url)
        schemeless_url == Mid(url, scheme_sep + 3)
        fav == FaviconId(favtable, favicon_url, icon, f)
        favicon_id == fav.id
        params == UpdateParams(schemeless_url, title, favicon_id, curr_secs,
                               url, hash)
    IN  IF f.upd
        THEN \* if (!ok) return false;
             [page |-> page, favicon |-> fav.table, ret |-> FALSE,
              stmts |-> fav.stmts \o <<"UPDATE page">>, err |-> TRUE]
        ELSE IF NumRowsAffected(page, params) > 0
        THEN [page |-> UpdatePage(page, params), favicon |-> fav.table,
              ret |-> TRUE,
              stmts |-> fav.stmts \o <<"UPDATE page">>, err |-> fav.err]
        ELSE IF f.ins
        THEN [page |-> page, favicon |-> fav.table, ret |-> FALSE,
              stmts |-> fav.stmts \o <<"UPDATE page", "INSERT page">>,
              err |-> TRUE]
        ELSE [page |-> InsertPage(page, url, hash, schemeless_url, title,
                                  favicon_id, curr_secs),
              favicon |-> fav.table, ret |-> TRUE,
              stmts |-> fav.stmts \o <<"UPDATE page", "INSERT page">>,
              err |-> fav.err]

\* the rowids stay within the model's bound
WithinBounds(page) == \A r \in page : r.id <= MaxPages

MarkVisit(url, title, favicon_url, icon, f) ==
    LET res == MarkVisitResult(autocomplete_page, favicon, now,
                               url, title, favicon_url, icon, f)
    IN  /\ WithinBounds(res.page)
        /\ autocomplete_page' = res.page
        /\ favicon' = res.favicon
        /\ last' = Call("MarkVisit", <<url, title, favicon_url, icon>>,
                        res.ret, res.stmts, res.err)
        /\ UNCHANGED <<pixmapCache, now, expirer, visits>>

\* MarkVisit statement by statement, for callers on several threads.
\* visits[t] is thread t's call: the statement it runs next and its locals.

\* entry up to the UPDATE: the scheme check, the locals, FaviconId
VisitBegin(t, url, title, favicon_url, icon) ==
    LET scheme_sep == IndexOf(url, SchemeSep)
        fav == FaviconId(favicon, favicon_url, icon, NoFailure)
    IN  /\ visits[t].pc = "idle"
        /\ IF NoScheme(scheme_sep)
           THEN /\ visits' = [visits EXCEPT ![t] =
                                 [pc |-> "returned", url |-> url,
                                  rows |-> -1, inserted |-> FALSE,
                                  ret |-> FALSE]]
                /\ UNCHANGED favicon
           ELSE /\ visits' = [visits EXCEPT ![t] =
                                 [pc |-> "UPDATE", url |-> url,
                                  title |-> title,
                                  hash |-> HashString(url),
                                  schemeless_url |-> Mid(url, scheme_sep + 3),
                                  curr_secs |-> now,
                                  favicon_id |-> fav.id]]
                /\ favicon' = fav.table
        /\ UNCHANGED <<autocomplete_page, pixmapCache, now, last, expirer>>

\* the UPDATE, if (!ok) return false, if (numRowsAffected() > 0) return true
VisitUpdate(t, fail) ==
    LET v == visits[t]
        params == UpdateParams(v.schemeless_url, v.title, v.favicon_id,
                               v.curr_secs, v.url, v.hash)
        rows == NumRowsAffected(autocomplete_page, params)
    IN  /\ v.pc = "UPDATE"
        /\ IF fail
           THEN /\ visits' = [visits EXCEPT ![t] =
                                 [pc |-> "returned", url |-> v.url,
                                  rows |-> -1, inserted |-> FALSE,
                                  ret |-> FALSE]]
                /\ UNCHANGED autocomplete_page
           ELSE /\ autocomplete_page' = UpdatePage(autocomplete_page, params)
                /\ visits' = [visits EXCEPT ![t] =
                                 IF rows > 0
                                 THEN [pc |-> "returned", url |-> v.url,
                                       rows |-> rows, inserted |-> FALSE,
                                       ret |-> TRUE]
                                 ELSE [v EXCEPT !.pc = "INSERT"]]
        /\ UNCHANGED <<favicon, pixmapCache, now, last, expirer>>

\* the INSERT, whose result is returned
VisitInsert(t, fail) ==
    LET v == visits[t]
        page == InsertPage(autocomplete_page, v.url, v.hash, v.schemeless_url,
                           v.title, v.favicon_id, v.curr_secs)
    IN  /\ v.pc = "INSERT"
        /\ fail \/ WithinBounds(page)
        /\ autocomplete_page' = IF fail THEN autocomplete_page ELSE page
        /\ visits' = [visits EXCEPT ![t] =
                         [pc |-> "returned", url |-> v.url, rows |-> 0,
                          inserted |-> ~fail, ret |-> ~fail]]
        /\ UNCHANGED <<favicon, pixmapCache, now, last, expirer>>

\* the caller has the result; the thread is free for its next call
VisitReturn(t) ==
    /\ visits[t].pc = "returned"
    /\ visits' = [visits EXCEPT ![t] = Idle]
    /\ UNCHANGED <<autocomplete_page, favicon, pixmapCache, now, last, expirer>>

\* FaviconCache.Upsert called on its own
Upsert(url, icon, f) ==
    LET fav == FaviconId(favicon, url, icon, f)
    IN  /\ favicon' = fav.table
        /\ last' = Call("FaviconId", <<url, icon>>, fav.id, fav.stmts, fav.err)
        /\ UNCHANGED <<autocomplete_page, pixmapCache, now, expirer, visits>>

-----------------------------------------------------------------------------
(* PageIndex::CachedFavicon(url) -- FaviconCache.Fetch *)

\* QIcon(): the empty icon
NoPixmap == "none"

\* auto key = QString("doogie:favicon_") + url;
CacheKey(url) == <<"doogie:favicon_">> \o url

\* a lookup that never finds the entry (as under another key)
CacheFindNever(cache, key) == {}

\* QPixmapCache::find(key, &pixmap)
CacheFind(cache, key) == {e \in cache : e.key = key}

\* QPixmapCache::insert(key, pixmap): replaces the entry of the key
CacheInsert(cache, key, pixmap) ==
    {e \in cache : e.key # key} \cup {[key |-> key, pixmap |-> pixmap]}

\* The whole of CachedFavicon: the cache it leaves, the icon it returns,
\* the statements it issued and whether one failed.
CachedFavicon(cache, favtable, url, fail) ==
    IF IsEmpty(url)
    THEN [cache |-> cache, icon |-> NoPixmap, stmts |-> <<>>, err |-> FALSE]
    ELSE
    LET key == CacheKey(url)
        hit == CacheFind(cache, key)
    IN  IF hit # {}
        THEN [cache |-> cache, icon |-> (CHOOSE e \in hit : TRUE).pixmap,
              stmts |-> <<>>, err |-> FALSE]
        ELSE
        LET hash == HashString(url)
            found == {r \in favtable : FaviconMatches(r, hash, url)}
        IN  IF fail \/ found = {}
            THEN \* if (rec.isEmpty()) return QIcon();
                 [cache |-> cache, icon |-> NoPixmap,
                  stmts |-> <<"SELECT favicon data">>, err |-> fail]
            ELSE LET pixmap == loadFromData(FirstRow(found).data)
                 IN  [cache |-> CacheInsert(cache, key, pixmap),
                      icon |-> pixmap,
                      stmts |-> <<"SELECT favicon data">>, err |-> FALSE]

\* QPixmapCache is bounded: it may drop an entry at any time, after which
\* QPixmapCache::find misses
CacheEvict(key) ==
    /\ CacheFind(pixmapCache, key) # {}
    /\ pixmapCache' = {e \in pixmapCache : e.key # key}
    /\ UNCHANGED <<autocomplete_page, favicon, now, last, expirer, visits>>

Fetch(url, fail) ==
    LET res == CachedFavicon(pixmapCache, favicon, url, fail)
    IN  /\ pixmapCache' = res.cache
        /\ last' = Call("CachedFavicon", <<url>>, res.icon, res.stmts, res.err)
        /\ UNCHANGED <<autocomplete_page, favicon, now, expirer, visits>>

-----------------------------------------------------------------------------
(* PageIndex::DoExpiration() -- the Expirer's sweep *)

\* a sweep that also takes the records visited exactly at the cutoff
IsStaleAtCutoff(row, old) == row.last_visited <= old

\* WHERE last_visited < ?
IsStale(row, old) == row.last_visited < old

\* SELECT DISTINCT favicon_id FROM autocomplete_page (a NULL equals no id)
ReferencedIds(page) == {r.favicon_id : r \in page} \ {NullId}

\* DELETE FROM favicon WHERE id IN ( SELECT DISTINCT favicon_id ... )
DeleteFavicons(favtable, page) ==
    {r \in favtable : ~(r.id \in ReferencedIds(page))}

\* DELETE FROM autocomplete_page WHERE last_visited < ?
DeletePages(page, old) == {r \in page : ~IsStale(r, old)}

DoExpiration(failPages, failFavicons) ==
    LET old == now - kExpireNotVisitedSinceSeconds
        page == IF failPages THEN autocomplete_page
                ELSE DeletePages(autocomplete_page, old)
    IN  /\ autocomplete_page' = page
        /\ favicon' = IF failFavicons THEN favicon
                      ELSE DeleteFavicons(favicon, page)
        /\ last' = Call("DoExpiration", <<failPages, failFavicons>>, FALSE,
                        <<"DELETE page", "DELETE favicon">>,
                        failPages \/ failFavicons)
        /\ UNCHANGED <<pixmapCache, now, expirer, visits>>

\* the clock advances
Tick ==
    /\ now < MaxTime
    /\ now' = now + 1
    /\ UNCHANGED <<autocomplete_page, favicon, pixmapCache, last, expirer,
                   visits>>

-----------------------------------------------------------------------------
(* PageIndex::Expirer: the timer, and DoExpiration statement by statement.  *)
(* expirer.pending: a timeout of the timer waits to be delivered;           *)
(* expirer.sweeps: the executions of DoExpiration under way, each at the    *)
(* statement it runs next.                                                   *)

\* a delivery that does not wait for the function running
LoopAlwaysDelivers(sweeps) == TRUE

\* timer.connect(&timer, &QTimer::timeout, PageIndex::DoExpiration): the
\* timeout is delivered by the event loop of the timer's thread, which calls
\* the function and takes its next event when the function has returned;
\* DoExpiration never enters the loop itself.
LoopDelivers(sweeps) == sweeps = <<>>

\* timer.start(3 * 60 * 1000): the interval elapses.  A timeout that already
\* waits absorbs the new one.
TimerTimeout ==
    /\ ~expirer.pending
    /\ expirer' = [expirer EXCEPT !.pending = TRUE]
    /\ UNCHANGED <<autocomplete_page, favicon, pixmapCache, now, last, visits>>

\* DoExpiration is entered: old is computed
BeginSweep ==
    /\ expirer.pending
    /\ LoopDelivers(expirer.sweeps)
    /\ expirer' =
          [pending |-> FALSE,
           sweeps |-> Append(expirer.sweeps,
                             [pc |-> "DELETE page",
                              old |-> now - kExpireNotVisitedSinceSeconds,
                              failPages |-> FALSE])]
    /\ UNCHANGED <<autocomplete_page, favicon, pixmapCache, now, last, visits>>

\* all but the i-th
Without(seq, i) == SubSeq(seq, 1, i - 1) \o SubSeq(seq, i + 1, Len(seq))

\* a first statement whose failure ends the sweep
SweepPagesOrReturn(i, fail) ==
    /\ expirer.sweeps[i].pc = "DELETE page"
    /\ autocomplete_page' =
          IF fail THEN autocomplete_page
          ELSE DeletePages(autocomplete_page, expirer.sweeps[i].old)
    /\ expirer' =
          IF fail THEN [expirer EXCEPT !.sweeps = Without(expirer.sweeps, i)]
          ELSE [expirer EXCEPT !.sweeps[i].pc = "DELETE favicon",
                               !.sweeps[i].failPages = fail]
    /\ UNCHANGED <<favicon, pixmapCache, now, last, visits>>

\* the first statement of a sweep under way; its result is not looked at
SweepPages(i, fail) ==
    /\ expirer.sweeps[i].pc = "DELETE page"
    /\ autocomplete_page' =
          IF fail THEN autocomplete_page
          ELSE DeletePages(autocomplete_page, expirer.sweeps[i].old)
    /\ expirer' = [expirer EXCEPT !.sweeps[i].pc = "DELETE favicon",
                                   !.sweeps[i].failPages = fail]
    /\ UNCHANGED <<favicon, pixmapCache, now, last, visits>>

\* the second statement, and the return
SweepFavicons(i, fail) ==
    /\ expirer.sweeps[i].pc = "DELETE favicon"
    /\ favicon' = IF fail THEN favicon
                  ELSE DeleteFavicons(favicon, autocomplete_page)
    /\ expirer' = [expirer EXCEPT !.sweeps = Without(expirer.sweeps, i)]
    /\ last' = Call("DoExpiration", <<expirer.sweeps[i].failPages, fail>>,
                    FALSE, <<"DELETE page", "DELETE favicon">>,
                    expirer.sweeps[i].failPages \/ fail)
    /\ UNCHANGED <<autocomplete_page, pixmapCache, now, visits>>

-----------------------------------------------------------------------------
(* PageIndex::AutocompleteSuggest(text, count) *)

RECURSIVE TrimLeft(_)
TrimLeft(s) ==
    IF s # <<>> /\ Head(s) = Space THEN TrimLeft(Tail(s)) ELSE s

RECURSIVE TrimRight(_)
TrimRight(s) ==
    IF s # <<>> /\ s[Len(s)] = Space
    THEN TrimRight(SubSeq(s, 1, Len(s) - 1)) ELSE s

\* QString::trimmed
Trimmed(s) == TrimRight(TrimLeft(s))

RECURSIVE ReplaceQuotes(_)
\* .replace('"', "\"\"")
ReplaceQuotes(s) ==
    IF s = <<>> THEN <<>>
    ELSE IF Head(s) = Quote THEN <<Quote, Quote>> \o ReplaceQuotes(Tail(s))
    ELSE <<Head(s)>> \o ReplaceQuotes(Tail(s))

RECURSIVE SplitFrom(_, _)
\* the pieces of s, cur being the piece under way
SplitFrom(s, cur) ==
    IF s = <<>> THEN (IF cur = <<>> THEN <<>> ELSE <<cur>>)
    ELSE IF Head(s) = Space
         THEN (IF cur = <<>> THEN <<>> ELSE <<cur>>) \o SplitFrom(Tail(s), <<>>)
    ELSE SplitFrom(Tail(s), Append(cur, Head(s)))

\* .split(' ', QString::SkipEmptyParts)
Split(s) == SplitFrom(s, <<>>)

RECURSIVE JoinPieces(_)
\* to_search += QString('"') + piece + "\"* ";
JoinPieces(pieces) ==
    IF pieces = <<>> THEN <<>>
    ELSE <<Quote>> \o Head(pieces) \o <<Quote, "*", Space>>
         \o JoinPieces(Tail(pieces))

\* QString to_search = " "; and the loop over the pieces
ToSearch(text) == <<Space>> \o JoinPieces(Split(ReplaceQuotes(Trimmed(text))))

RECURSIVE Spaces(_)
Spaces(n) == IF n <= 0 THEN <<>> ELSE <<Space>> \o Spaces(n - 1)

\* QString::arg(const QString& a, int fieldWidth): a, right-aligned in a
\* field of fieldWidth characters, replaces the lowest-numbered marker
PadTo(a, fieldWidth) == Spaces(fieldWidth - Len(a)) \o a

\* QString("... apf('%1') ... ORDER BY apf.frecency LIMIT %2")
\*     .arg(to_search, count): the statement, by its varying parts.  The
\* second argument is the field width; the marker %2 stays in the text.
SuggestSql(to_search, count) ==
    [match |-> PadTo(to_search, count),
     order_by |-> "apf.frecency",
     limit |-> <<"%", "2">>]

-----------------------------------------------------------------------------
(* The storage service's side of the suggestion query: the full-text index *)
(* over url and title, the join, the ordering and the limit.               *)

RECURSIVE ReadSqlLiteral(_, _)
\* apf('%1'): how the statement's string literal is read.  Inside the
\* literal '' is one apostrophe; a single apostrophe closes it, and when
\* text is left over after that the literal was closed before its end.
ReadSqlLiteral(s, acc) ==
    IF s = <<>> THEN [whole |-> TRUE, value |-> acc]
    ELSE IF Head(s) = Apostrophe
    THEN IF Len(s) >= 2 /\ s[2] = Apostrophe
         THEN ReadSqlLiteral(Tail(Tail(s)), Append(acc, Apostrophe))
         ELSE [whole |-> FALSE, value |-> acc]
    ELSE ReadSqlLiteral(Tail(s), Append(acc, Head(s)))

RECURSIVE FtsParse(_, _, _, _)
\* The quoted phrases of a full-text query: inside a string "" is one quote
\* character; outside one only spaces and the prefix marker * are expected.
FtsParse(s, inq, cur, acc) ==
    IF s = <<>> THEN [ok |-> ~inq, terms |-> acc]
    ELSE IF inq
    THEN IF Head(s) = Quote
         THEN IF Len(s) >= 2 /\ s[2] = Quote
              THEN FtsParse(Tail(Tail(s)), TRUE, Append(cur, Quote), acc)
              ELSE FtsParse(Tail(s), FALSE, <<>>, Append(acc, cur))
         ELSE FtsParse(Tail(s), TRUE, Append(cur, Head(s)), acc)
    ELSE IF Head(s) = Quote THEN FtsParse(Tail(s), TRUE, <<>>, acc)
    ELSE IF Head(s) \in {Space, "*"} THEN FtsParse(Tail(s), FALSE, <<>>, acc)
    ELSE [ok |-> FALSE, terms |-> acc]

RECURSIVE TokensFrom(_, _)
TokensFrom(s, cur) ==
    IF s = <<>> THEN (IF cur = <<>> THEN <<>> ELSE <<cur>>)
    ELSE IF Head(s) \in Letters
         THEN TokensFrom(Tail(s), Append(cur, Head(s)))
    ELSE (IF cur = <<>> THEN <<>> ELSE <<cur>>) \o TokensFrom(Tail(s), <<>>)

\* the index's tokenizer: maximal runs of letters
Tokenize(s) == TokensFrom(s, <<>>)

IsPrefix(p, t) == Len(p) <= Len(t) /\ SubSeq(t, 1, Len(p)) = p

\* a phrase with a prefix marker: its tokens in a row, the last as a prefix
PhraseMatches(phrase, doc) ==
    LET p == Tokenize(phrase)
        d == Tokenize(doc)
    IN  /\ p # <<>>
        /\ \E i \in 1..Len(d) :
              /\ i + Len(p) - 1 <= Len(d)
              /\ \A j \in 1..(Len(p) - 1) : d[i + j - 1] = p[j]
              /\ IsPrefix(p[Len(p)], d[i + Len(p) - 1])

\* implicit AND of the terms, each over the columns url and title
FtsMatches(row, terms) ==
    \A k \in 1..Len(terms) :
        PhraseMatches(terms[k], row.url) \/ PhraseMatches(terms[k], row.title)

\* ORDER BY apf.frecency: ascending, rows of equal frecency by rowid
RowBefore(r, q) ==
    r.frecency < q.frecency \/ (r.frecency = q.frecency /\ r.id <= q.id)

RECURSIVE OrderBy(_)
OrderBy(rows) ==
    IF rows = {} THEN <<>>
    ELSE LET first == CHOOSE r \in rows : \A q \in rows : RowBefore(r, q)
         IN  <<first>> \o OrderBy(rows \ {first})

\* LIMIT n
Limit(rows, n) == SubSeq(rows, 1, IF n < Len(rows) THEN n ELSE Len(rows))

\* LEFT JOIN favicon f ON f.id = ap.favicon_id: f.url, or NULL (read as "")
JoinedFaviconUrl(row, favtable) ==
    LET f == {r \in favtable : r.id = row.favicon_id}
    IN  IF f = {} THEN <<>> ELSE FirstRow(f).url

\* Sql::Exec of the suggestion statement: it fails on a storage error and on
\* a statement that does not parse (a LIMIT that is no number, a string
\* literal closed before its end, a malformed match expression); otherwise
\* the rows, ordered and limited.
ExecSuggest(sql, page, favtable, fail) ==
    LET literal == ReadSqlLiteral(sql.match, <<>>)
        parsed == FtsParse(literal.value, FALSE, <<>>, <<>>)
    IN  IF fail \/ ~IsNumeric(sql.limit) \/ ~literal.whole \/ ~parsed.ok
        THEN [ok |-> FALSE, rows |-> <<>>]
        ELSE LET hits == {r \in page : FtsMatches(r, parsed.terms)}
                 rows == Limit(OrderBy(hits), TextToInt(sql.limit))
             IN  [ok |-> TRUE,
                  rows |-> [i \in 1..Len(rows) |->
                              [url |-> rows[i].url, title |-> rows[i].title,
                               favicon_url |->
                                   JoinedFaviconUrl(rows[i], favtable)]]]

RECURSIVE AppendPages(_, _, _, _, _)
\* while (query.next()) ret.append({url, title, CachedFavicon(favicon_url)})
AppendPages(rows, ret, cache, favtable, failIcon) ==
    IF rows = <<>> THEN [ret |-> ret, cache |-> cache, stmts |-> <<>>]
    ELSE LET row == Head(rows)
             icon == CachedFavicon(cache, favtable, row.favicon_url, failIcon)
             rest == AppendPages(Tail(rows),
                                 Append(ret, [url |-> row.url,
                                              title |-> row.title,
                                              favicon |-> icon.icon]),
                                 icon.cache, favtable, failIcon)
         IN  [ret |-> rest.ret, cache |-> rest.cache,
              stmts |-> icon.stmts \o rest.stmts]

\* a check that lets through everything but a text of no character at all
NothingToSearchWhenEmpty(to_search) == Len(to_search) = 0

\* if (to_search.length() == 1) return ret;
NothingToSearch(to_search) == Len(to_search) = 1

\* The whole of AutocompleteSuggest
AutocompleteSuggestResult(page, favtable, cache, text, count, fail, failIcon) ==
    LET to_search == ToSearch(text)
    IN  IF NothingToSearch(to_search)
        THEN [ret |-> <<>>, cache |-> cache, stmts |-> <<>>, err |-> FALSE]
        ELSE
        LET exec == ExecSuggest(SuggestSql(to_search, count), page, favtable,
                                fail)
        IN  IF ~exec.ok
            THEN [ret |-> <<>>, cache |-> cache,
                  stmts |-> <<"SELECT suggest">>, err |-> fail]
            ELSE LET res == AppendPages(exec.rows, <<>>, cache, favtable,
                                        failIcon)
                 IN  [ret |-> res.ret, cache |-> res.cache,
                      stmts |-> <<"SELECT suggest">> \o res.stmts,
                      err |-> failIcon /\ res.stmts # <<>>]

Texts == {<<>>, <<Space>>, <<"a">>, <<"t">>, <<"a", Quote>>}

RECURSIVE TextsUpTo(_)
\* every text of at most n characters over a letter, the two quote
\* characters and the space
TextsUpTo(n) ==
    IF n = 0 THEN {<<>>}
    ELSE LET shorter == TextsUpTo(n - 1)
         IN  shorter \cup {Append(t, c) : t \in shorter,
                                          c \in {"a", Quote, Apostrophe, Space}}

QueryTexts == TextsUpTo(MaxTextLen)

AutocompleteSuggest(text, count, fail, failIcon) ==
    LET res == AutocompleteSuggestResult(autocomplete_page, favicon,
                                         pixmapCache, text, count, fail,
                                         failIcon)
    IN  /\ pixmapCache' = res.cache
        /\ last' = Call("AutocompleteSuggest", <<text, count>>, res.ret,
                        res.stmts, res.err)
        /\ UNCHANGED <<autocomplete_page, favicon, now, expirer, visits>>

-----------------------------------------------------------------------------
(* The specification *)

Init ==
    /\ autocomplete_page = {}
    /\ favicon = {}
    /\ pixmapCache = {}
    /\ now = 0
    /\ last = [op |-> "none", args |-> <<>>, ret |-> FALSE, stmts |-> <<>>,
               err |-> FALSE, again |-> FALSE]
    /\ expirer = [pending |-> FALSE, sweeps |-> <<>>]
    /\ visits = [t \in Threads |-> Idle]

\* the favicon arguments of a call: no url, no icon, or a url with an icon
FaviconArgs ==
    {a \in FaviconUrls \X Icons :
        (IsEmpty(a[1]) => a[2] = CHOOSE i \in Icons : i.key = 1)}

DoMarkVisit ==
    \E url \in Urls, title \in Titles, a \in FaviconArgs, f \in Failures :
        MarkVisit(url, title, a[1], a[2], f)

\* MarkVisit calls the storage service fails no statement of
DoVisit ==
    \E url \in Urls, title \in Titles, a \in FaviconArgs :
        MarkVisit(url, title, a[1], a[2], NoFailure)

DoUpsert ==
    \E a \in FaviconArgs, f \in Failures :
        /\ ~(f.upd \/ f.ins)
        /\ Upsert(a[1], a[2], f)

DoFetch == \E url \in FaviconUrls, fail \in BOOLEAN : Fetch(url, fail)

DoEvict == \E url \in FaviconUrls : CacheEvict(CacheKey(url))

DoSuggest ==
    \E text \in Texts, count \in Counts, fail \in BOOLEAN, failIcon \in BOOLEAN :
        /\ ~(fail /\ failIcon)
        /\ AutocompleteSuggest(text, count, fail, failIcon)

DoSweep ==
    \E failPages \in BOOLEAN, failFavicons \in BOOLEAN :
        DoExpiration(failPages, failFavicons)

DoSweepPages ==
    \E i \in 1..Len(expirer.sweeps), fail \in BOOLEAN : SweepPages(i, fail)

DoSweepFavicons ==
    \E i \in 1..Len(expirer.sweeps), fail \in BOOLEAN : SweepFavicons(i, fail)

\* suggestions asked for with any short text, no statement failing
DoCompose ==
    \E text \in QueryTexts, count \in Counts :
        AutocompleteSuggest(text, count, FALSE, FALSE)

DoVisitBegin ==
    \E t \in Threads, url \in Urls, title \in Titles, a \in FaviconArgs :
        VisitBegin(t, url, title, a[1], a[2])

DoVisitUpdate == \E t \in Threads, fail \in BOOLEAN : VisitUpdate(t, fail)

DoVisitInsert == \E t \in Threads, fail \in BOOLEAN : VisitInsert(t, fail)

DoVisitReturn == \E t \in Threads : VisitReturn(t)

\* the whole component
Next == DoMarkVisit \/ DoUpsert \/ DoFetch \/ DoSuggest \/ DoSweep \/ Tick

Spec == Init /\ [][Next]_vars

\* the visit index and the Expirer: MarkVisit calls, sweeps, the clock
NextVisit == DoMarkVisit \/ DoSweep \/ Tick

SpecVisit == Init /\ [][NextVisit]_vars

\* the favicon store: Upsert calls, MarkVisit calls and sweeps, all within
\* one second
NextFavicon == DoUpsert \/ DoMarkVisit \/ DoSweep

SpecFavicon == Init /\ [][NextFavicon]_vars

\* suggestions: MarkVisit calls, AutocompleteSuggest calls, the clock
NextSuggest == DoMarkVisit \/ DoSuggest \/ Tick

SpecSuggest == Init /\ [][NextSuggest]_vars

\* the Expirer on its timer, statement by statement, beside MarkVisit calls
NextExpirer ==
    \/ DoVisit
    \/ Tick
    \/ TimerTimeout
    \/ BeginSweep
    \/ DoSweepPages
    \/ DoSweepFavicons

SpecExpirer == Init /\ [][NextExpirer]_vars

\* the query string: AutocompleteSuggest over every short text
NextQuery == DoCompose

SpecQuery == Init /\ [][NextQuery]_vars

\* the decoded-icon cache: MarkVisit calls, Fetch calls, sweeps, and the
\* cache dropping entries
NextCache == DoMarkVisit \/ DoFetch \/ DoSweep \/ DoEvict

SpecCache == Init /\ [][NextCache]_vars

\* MarkVisit called from two threads at once
NextRace == DoVisitBegin \/ DoVisitUpdate \/ DoVisitInsert \/ DoVisitReturn

SpecRace == Init /\ [][NextRace]_vars

-----------------------------------------------------------------------------
(* Vocabulary of the properties *)

\* the step is a call of op (every call records itself; only Tick moves now)
IsCall(op) == last'.op = op /\ now' = now

\* the PageRecords of a url
RowsFor(page, url) == {r \in page : r.url = url}

HasScheme(url) == IndexOf(url, SchemeSep) # -1

-----------------------------------------------------------------------------
(* Properties of the visit index and the Expirer (under SpecVisit) *)

\* C1: a successful MarkVisit for a URL that already has a record raises that
\* record's visit_count by exactly 1 and leaves its frecency strictly greater.
C1_VisitCountIncrements ==
    [][\A u \in Urls :
         (/\ IsCall("MarkVisit")
          /\ last'.args[1] = u
          /\ last'.ret = TRUE
          /\ RowsFor(autocomplete_page, u) # {})
         => \A r \in RowsFor(autocomplete_page, u) :
               \E q \in RowsFor(autocomplete_page', u) :
                  /\ q.id = r.id
                  /\ q.visit_count = r.visit_count + 1
                  /\ q.frecency > r.frecency]_vars

\* C2: the page table holds at most one PageRecord for any URL.
C2_OneRecordPerUrl ==
    \A r \in autocomplete_page, q \in autocomplete_page :
        r.url = q.url => r.id = q.id

\* the invariant half of C3
FrecencyFormula(page) ==
    \A r \in page :
        r.frecency = r.last_visited + r.visit_count * kVisitTimeWorthSeconds

\* C3: every PageRecord has frecency = last_visited + visit_count * kVisitWeight,
\* and after n serialized visits of a URL, the last at time t, its frecency is
\* t + n * kVisitWeight (here n >= 2: two successful visits of the URL in a
\* row, nothing but the clock moving between them).
C3_FrecencyAfterNVisits ==
    [][/\ FrecencyFormula(autocomplete_page')
       /\ \A u \in Urls :
            (/\ last.op = "MarkVisit" /\ last.ret = TRUE /\ last.args[1] = u
             /\ IsCall("MarkVisit")
             /\ last'.ret = TRUE /\ last'.args[1] = u)
            => \A q \in RowsFor(autocomplete_page', u) :
                  /\ q.last_visited = now
                  /\ q.frecency >= now + 2 * kVisitTimeWorthSeconds]_vars

\* C4: after a sweep whose two statements succeed, every FaviconRecord that no
\* remaining PageRecord references is gone and every referenced one is kept.
C4_OrphansCollected ==
    [][(IsCall("DoExpiration") /\ ~last'.err)
       => \A f \in favicon :
             (f \in favicon') <=> (f.id \in ReferencedIds(autocomplete_page'))]_vars

\* what a sweep at time now owes the page table
SweptPages ==
    LET old == now - kExpireNotVisitedSinceSeconds
    IN  /\ \A r \in autocomplete_page' : r.last_visited >= old
        /\ \A r \in autocomplete_page :
              r.last_visited >= old => r \in autocomplete_page'

C6_NoSchemeNoMutation ==
    [][(IsCall("MarkVisit") /\ ~HasScheme(last'.args[1]))
       => /\ last'.ret = FALSE
          /\ last'.stmts = <<>>
          /\ UNCHANGED <<autocomplete_page, favicon, pixmapCache>>]_vars

\* C6's case: such a call was made with a favicon url and an icon, and
\* returned failure.
C6_Witness ==
    /\ last.op = "MarkVisit"
    /\ ~HasScheme(last.args[1])
    /\ ~IsEmpty(last.args[3]) /\ ~last.args[4].null
    /\ last.ret = FALSE
    /\ favicon = {}

\* C18: a MarkVisit call for URL u creates or changes only PageRecords of u:
\* every PageRecord of another url is the same after the call as before,
\* none of another url appears, and no PageRecord is deleted.
C18_OtherPagesUntouched ==
    [][IsCall("MarkVisit") =>
         LET u == last'.args[1]
         IN  /\ \A r \in autocomplete_page : r.url # u => r \in autocomplete_page'
             /\ \A q \in autocomplete_page' : q.url # u => q \in autocomplete_page
             /\ \A r \in autocomplete_page :
                   \E q \in autocomplete_page' : q.id = r.id
       ]_vars

\* C18's case: a MarkVisit has written a PageRecord of its URL at a later
\* time than the PageRecord of another URL, which is still as it was written.
C18_Witness ==
    /\ last.op = "MarkVisit" /\ last.ret = TRUE
    /\ \E r \in autocomplete_page, q \in autocomplete_page :
          /\ r.url = last.args[1] /\ r.last_visited = now
          /\ q.url # last.args[1]
          /\ q.last_visited < now /\ q.visit_count = 1

\* C20: after any sequence of MarkVisit calls and sweeps, every PageRecord
\* whose favicon_id is not null refers to a FaviconRecord that exists.
C20_NoDanglingFaviconRef ==
    \A r \in autocomplete_page :
        r.favicon_id # NullId => \E f \in favicon : f.id = r.favicon_id

-----------------------------------------------------------------------------
(* Properties of the favicon store (under SpecFavicon) *)

NoFaviconWrite(stmts) ==
    \A i \in 1..Len(stmts) : stmts[i] \notin {"UPDATE favicon", "INSERT favicon"}

\* the step is an Upsert repeating the Upsert before it: same non-empty url,
\* same icon (so the same fingerprint)
UpsertRepeated ==
    /\ last.op = "FaviconId"
    /\ IsCall("FaviconId")
    /\ last'.args = last.args
    /\ ~IsEmpty(last.args[1]) /\ ~last.args[2].null

\* what the second of two such calls owes
SecondUpsertIdle ==
    /\ last'.ret = last.ret
    /\ NoFaviconWrite(last'.stmts)
    /\ favicon' = favicon

UpsertChanged(rec) ==
    /\ IsCall("FaviconId")
    /\ rec.url = last'.args[1]
    /\ ~last'.args[2].null
    /\ rec.data_key # last'.args[2].key

\* what such a call owes: rec's id, rec holding the new key and bytes when
\* the update succeeded, and no record more or less
UpsertRefreshed(rec) ==
    /\ last'.ret = rec.id
    /\ ~last'.err =>
          \E r \in favicon' :
             /\ r.id = rec.id
             /\ r.data_key = last'.args[2].key
             /\ r.data = icon_bytes(last'.args[2])
    /\ {r.id : r \in favicon'} = {r.id : r \in favicon}

LookupFailed == last'.err /\ last'.stmts = <<"SELECT favicon">>

RefreshFailed(rec, url, icon) ==
    /\ rec.url = url
    /\ ~icon.null
    /\ rec.data_key # icon.key
    /\ Len(last'.stmts) >= 2 /\ last'.stmts[2] = "UPDATE favicon"
    /\ \A r \in favicon' : r.id = rec.id => r.data_key # icon.key

\* C17: when the refreshing UPDATE of an Upsert fails, the Upsert still
\* returns the record's id and the record keeps its data_key and data; a
\* MarkVisit it was made for goes on to its page statements, and when it
\* returns success the PageRecord it wrote holds that id.
C17_FailedRefreshSwallowed ==
    [][\A rec \in favicon :
         /\ (IsCall("FaviconId")
                /\ RefreshFailed(rec, last'.args[1], last'.args[2]))
            => /\ last'.ret = rec.id
               /\ favicon' = favicon
         /\ (IsCall("MarkVisit")
                /\ RefreshFailed(rec, last'.args[3], last'.args[4]))
            => /\ favicon' = favicon
               /\ Len(last'.stmts) >= 3 /\ last'.stmts[3] = "UPDATE page"
               /\ last'.ret = TRUE =>
                     \E r \in autocomplete_page' \ autocomplete_page :
                        r.url = last'.args[1] /\ r.favicon_id = rec.id
       ]_vars

\* C17's case: a MarkVisit whose Upsert failed to refresh the record has
\* returned success, the page written refers to the record, and the record
\* still holds another key than the icon's.
C17_Witness ==
    /\ last.op = "MarkVisit" /\ last.ret = TRUE /\ last.err
    /\ last.stmts = <<"SELECT favicon", "UPDATE favicon", "UPDATE page",
                      "INSERT page">>
    /\ \E f \in favicon :
          /\ f.url = last.args[3]
          /\ f.data_key # last.args[4].key
          /\ \E r \in autocomplete_page :
                r.url = last.args[1] /\ r.favicon_id = f.id

\* C13: after any sequence of Upsert calls, MarkVisit calls and sweeps, made
\* one after the other, the favicon table holds at most one FaviconRecord
\* for any favicon url.
C13_OneFaviconPerUrl ==
    \A r \in favicon, q \in favicon : r.url = q.url => r.id = q.id

\* C13's case: two PageRecords written by MarkVisit calls with the same
\* favicon url share the one FaviconRecord of that url.
C13_Witness ==
    /\ last.op = "MarkVisit" /\ last.ret = TRUE
    /\ ~IsEmpty(last.args[3])
    /\ Cardinality({f \in favicon : f.url = last.args[3]}) = 1
    /\ \E f \in favicon :
          Cardinality({r \in autocomplete_page : r.favicon_id = f.id}) = 2

-----------------------------------------------------------------------------
(* Properties of the suggestions (under SpecSuggest) *)

\* the PageRecords the index matches against the terms made from text
SuggestHits(page, text) ==
    {r \in page :
        FtsMatches(r, FtsParse(ToSearch(text), FALSE, <<>>, <<>>).terms)}

\* ret lists the rows picked, in order
Lists(ret, picked) ==
    /\ Len(ret) = Len(picked)
    /\ \A i \in 1..Len(picked) :
          ret[i].url = picked[i].url /\ ret[i].title = picked[i].title

\* picked are n different rows of hits, frecency descending, and no row
\* left out has a greater frecency than one picked
TopByFrecency(picked, hits, n) ==
    /\ \A i \in 1..n, j \in 1..n : i < j =>
          /\ picked[i].id # picked[j].id
          /\ picked[i].frecency >= picked[j].frecency
    /\ \A h \in hits :
          (\A i \in 1..n : picked[i].id # h.id) =>
              \A i \in 1..n : picked[i].frecency >= h.frecency

\* C9: with no storage error, AutocompleteSuggest returns its matching pages
\* ordered by frecency descending; when more match than the limit, the ones
\* of highest frecency.
C9_HighestFrecencyFirst ==
    (/\ last.op = "AutocompleteSuggest"
     /\ ~last.err
     /\ Len(ToSearch(last.args[1])) > 1)
    => LET hits == SuggestHits(autocomplete_page, last.args[1])
           n == IF last.args[2] < Cardinality(hits) THEN last.args[2]
                ELSE Cardinality(hits)
       IN  \E picked \in [1..n -> hits] :
              Lists(last.ret, picked) /\ TopByFrecency(picked, hits, n)

\* the text has no character or only whitespace
IsBlank(text) == \A i \in 1..Len(text) : text[i] = Space

\* C11: AutocompleteSuggest with a text that is empty or only whitespace
\* returns an empty sequence, issues no statement and changes no table and no
\* entry of the decoded-icon cache.
C11_BlankTextTouchesNothing ==
    [][(IsCall("AutocompleteSuggest") /\ IsBlank(last'.args[1]))
       => /\ last'.ret = <<>>
          /\ last'.stmts = <<>>
          /\ UNCHANGED <<autocomplete_page, favicon, pixmapCache>>]_vars

\* C11's case: a whitespace-only text was given while the index holds a page,
\* and nothing was returned and nothing issued.
C11_Witness ==
    /\ last.op = "AutocompleteSuggest"
    /\ last.args[1] = <<Space>>
    /\ last.ret = <<>> /\ last.stmts = <<>>
    /\ autocomplete_page # {}

\* the words of a text
TokenSet(s) == {Tokenize(s)[i] : i \in 1..Len(Tokenize(s))}

\* C10: after a successful MarkVisit(url, title, ...), an AutocompleteSuggest
\* made next, with a token of the title or the url for text, a limit that
\* cuts no match off and no storage error, returns a sequence holding the
\* page.
C10_VisitedPageSuggested ==
    [][(/\ last.op = "MarkVisit" /\ last.ret = TRUE
        /\ IsCall("AutocompleteSuggest")
        /\ ~last'.err
        /\ last'.args[1] \in TokenSet(last.args[1]) \cup TokenSet(last.args[2])
        /\ last'.args[2] >=
               Cardinality(SuggestHits(autocomplete_page, last'.args[1])))
       => \E i \in 1..Len(last'.ret) :
             /\ last'.ret[i].url = last.args[1]
             /\ last'.ret[i].title = last.args[2]]_vars

-----------------------------------------------------------------------------
(* Properties of the Expirer's scheduling (under SpecExpirer) *)

-----------------------------------------------------------------------------
(* Properties of the query string (under SpecQuery) *)

\* the tokens of the trimmed input, as typed
InputTokens(text) == Split(Trimmed(text))

\* C14: in the statement AutocompleteSuggest generates every quote character
\* of a token is doubled and each token of the trimmed input is one quoted
\* prefix term, so that the storage service reads back exactly the tokens
\* typed: no character of the input ends a quoted term (or the literal that
\* holds the terms) early.
C14_TokensReadBackWhole ==
    (last.op = "AutocompleteSuggest" /\ ~IsBlank(last.args[1]))
    => LET sql == SuggestSql(ToSearch(last.args[1]), last.args[2])
           literal == ReadSqlLiteral(sql.match, <<>>)
           parsed == FtsParse(literal.value, FALSE, <<>>, <<>>)
       IN  /\ literal.whole
           /\ parsed.ok
           /\ parsed.terms = InputTokens(last.args[1])

-----------------------------------------------------------------------------
\* the sweep under way moves on in this step
SweepMoves == expirer.sweeps # <<>> /\ expirer.sweeps' # expirer.sweeps

\* C16: a sweep runs the page DELETE, then the favicon DELETE, each once:
\* whether the page DELETE fails or not the sweep goes on to the favicon
\* DELETE, which then acts on the tables as they are, and after the favicon
\* DELETE, failed or not, the sweep is over.
C16_SweepStatementsIndependent ==
    [][SweepMoves =>
         LET sweep == expirer.sweeps[1]
         IN  IF sweep.pc = "DELETE page"
             THEN /\ Len(expirer.sweeps') = 1
                  /\ expirer.sweeps'[1].pc = "DELETE favicon"
                  /\ UNCHANGED favicon
             ELSE /\ sweep.pc = "DELETE favicon"
                  /\ expirer.sweeps' = <<>>
                  /\ last'.stmts = <<"DELETE page", "DELETE favicon">>
                  /\ UNCHANGED autocomplete_page
                  /\ ~last'.args[2] =>
                        favicon' = DeleteFavicons(favicon, autocomplete_page)
       ]_vars

\* C16's case: a sweep whose page DELETE failed has run its favicon DELETE:
\* a record past the cutoff is still there and the favicon DELETE has taken
\* the FaviconRecord a PageRecord refers to.
C16_Witness ==
    /\ last.op = "DoExpiration"
    /\ last.args = <<TRUE, FALSE>>
    /\ expirer.sweeps = <<>>
    /\ \E r \in autocomplete_page :
          /\ r.last_visited < now - kExpireNotVisitedSinceSeconds
          /\ r.favicon_id # NullId
    /\ favicon = {}

-----------------------------------------------------------------------------
(* Properties of concurrent MarkVisit calls (under SpecRace) *)

\* thread t's call for u has returned after an UPDATE of no row and an INSERT
InsertedAfterNoRow(t, u) ==
    /\ visits[t].pc = "returned"
    /\ visits[t].url = u
    /\ visits[t].rows = 0
    /\ visits[t].inserted

\* C15: when two MarkVisit calls for the same URL run at once, both UPDATEs
\* affect no row and both INSERTs run, the URL is left with two PageRecords
\* and both calls return success.
C15_RaceLeavesTwoRecords ==
    \A u \in Urls :
        (\A t \in Threads : InsertedAfterNoRow(t, u))
        => /\ Cardinality(RowsFor(autocomplete_page, u)) >= 2
           /\ \A t \in Threads : visits[t].ret = TRUE

\* C15's case: such an interleaving exists for a URL that had no record;
\* the table holds the two records the two calls inserted and nothing else.
C15_Witness ==
    \E u \in Urls :
        /\ \A t \in Threads : InsertedAfterNoRow(t, u) /\ visits[t].ret = TRUE
        /\ Cardinality(autocomplete_page) = 2
        /\ \A r \in autocomplete_page : r.url = u

-----------------------------------------------------------------------------
(* Properties of the decoded-icon cache (under SpecCache) *)

\* C19 as stated: whenever the cache holds an entry for a favicon url, the
\* entry is the decoding of the data now stored in the FaviconRecord of that
\* url (so a Fetch never returns an icon the table no longer holds).
C19_CacheAlwaysCurrent ==
    \A e \in pixmapCache :
        \E r \in favicon :
            CacheKey(r.url) = e.key /\ e.pixmap = loadFromData(r.data)

\* what the cache holds for a favicon url
EntriesOf(cache, url) == {e \in cache : e.key = <<"doogie:favicon_">> \o url}

\* C19, amended: an entry appears only in a Fetch of its url, as the
\* decoding of the data the FaviconRecord of the url holds then; while it is
\* in the cache no call changes it, whatever happens to the record, and a
\* Fetch of the url returns it without asking the storage service.
C19_CacheKeepsDecodingAtFetch ==
    [][\A url \in FaviconUrls \ {<<>>} :
         LET before == EntriesOf(pixmapCache, url)
             after == EntriesOf(pixmapCache', url)
         IN  /\ (before # {} /\ after # {}) => after = before
             /\ (before # {} /\ after = {}) =>
                   UNCHANGED <<autocomplete_page, favicon, last>>
             /\ (before = {} /\ after # {}) =>
                   /\ IsCall("CachedFavicon") /\ last'.args[1] = url
                   /\ \E r \in favicon :
                         /\ r.url = url
                         /\ \A e \in after : e.pixmap = loadFromData(r.data)
             /\ (/\ IsCall("CachedFavicon") /\ last'.args[1] = url
                 /\ before # {} /\ after = before) =>
                   /\ \A e \in before : last'.ret = e.pixmap
                   /\ last'.stmts = <<>>
       ]_vars

\* C19's case: a Fetch has returned the cached icon of a url, without a
\* statement, while the FaviconRecord of the url holds other data.
C19_Witness ==
    /\ last.op = "CachedFavicon" /\ last.stmts = <<>>
    /\ ~IsEmpty(last.args[1])
    /\ \E e \in pixmapCache, r \in favicon :
          /\ e.key = CacheKey(last.args[1])
          /\ r.url = last.args[1]
          /\ last.ret = e.pixmap
          /\ e.pixmap # loadFromData(r.data)

====
